---- MODULE Spec2Model ----
(***************************************************************************)
(* Bulwark circuit breaker: CircuitBreaker, StateManager, FailureDetector, *)
(* MetricsCollector and SlidingWindow as one state machine.                *)
(*                                                                         *)
(* JavaScript runs every callback to completion, so each action below is   *)
(* one synchronous run of the code: execute() up to its await, the         *)
(* continuation of execute() after the race settles, reset(), or a timer   *)
(* callback.  Several execute() calls may be awaiting at the same time;    *)
(* each occupies one slot of `calls`.  A call that has settled is "done"   *)
(* until its caller has received the result (a promise reaction, which     *)
(* runs before any timer or new request); the slot is then free, save for  *)
(* the loser of the race, which is still outstanding.                      *)
(*                                                                         *)
(* Time is the integer `now` (Date.now()).  The records kept in the two    *)
(* sliding windows carry a timestamp (and an error) that no code reads;    *)
(* they are modelled by the one field the code reads back.                 *)
(***************************************************************************)
EXTENDS Integers, Sequences, FiniteSets

\* ------------------------------------------------------------------ bounds
MaxTime == 3
MaxTotalCalls == 3
\* The longest run of add() calls between two clear() calls of a window.
MaxAdded == 5
\* The number of start() calls made on a timer.
MaxStarts == 3
MaxRecorded == 102

\* Slots for execute() calls that can be awaiting at once.
Calls == {1, 2}

\* Values an operation can resolve with.
Values == {"a", "b"}

\* Values an operation can reject with (or throw), by what they are: an
\* Error instance, another object, null, undefined.
Errors == {"Error", "object", "null", "undefined"}

\* -------------------------------------------------------- types/index.ts
CLOSED == "CLOSED"
OPEN == "OPEN"
HALF_OPEN == "HALF_OPEN"
CircuitState == {CLOSED, OPEN, HALF_OPEN}

\* failureRateThreshold is a fraction num/den in [0, 1].  The code compares
\* the double failures / length with it; for the small integers used here the
\* correctly rounded quotient compares exactly like the rational.
FailureThresholds == {1, 2}
MinimumThroughputs == {1, 2}
RateThresholds == {[num |-> 1, den |-> 2], [num |-> 1, den |-> 1]}
Timeouts == {2}
ResetTimeouts == {2}

\* CircuitBreaker.validateConfig: the conditions under which it does not throw.
\* DEFAULT_CONFIG
DEFAULT_CONFIG ==
    [failureThreshold |-> 5,
     failureRateThreshold |-> [num |-> 1, den |-> 2],
     timeout |-> 3000,
     resetTimeout |-> 60000,
     minimumThroughput |-> 10]

\* { ...DEFAULT_CONFIG, ...config }: a field the options carry wins.
MergeOptions(options) ==
    [field \in DOMAIN DEFAULT_CONFIG |->
        IF options[field] = <<>> THEN DEFAULT_CONFIG[field]
        ELSE options[field][1]]

\* The options that spell out every field of cfg.
Given(cfg) == [field \in DOMAIN cfg |-> <<cfg[field]>>]

\* validateConfig that wants the rate strictly between 0 and 1.
ValidConfigExclusive(cfg) ==
    /\ ~(cfg.failureThreshold <= 0)
    /\ ~(cfg.failureRateThreshold.num <= 0
         \/ cfg.failureRateThreshold.num >= cfg.failureRateThreshold.den)
    /\ ~(cfg.timeout <= 0)
    /\ ~(cfg.resetTimeout <= 0)
    /\ ~(cfg.minimumThroughput <= 0)

ValidConfig(cfg) ==
    /\ ~(cfg.failureThreshold <= 0)
    /\ ~(cfg.failureRateThreshold.num < 0
         \/ cfg.failureRateThreshold.num > cfg.failureRateThreshold.den)
    /\ ~(cfg.timeout <= 0)
    /\ ~(cfg.resetTimeout <= 0)
    /\ ~(cfg.minimumThroughput <= 0)

Configs ==
    {cfg \in [failureThreshold : FailureThresholds,
              failureRateThreshold : RateThresholds,
              timeout : Timeouts,
              resetTimeout : ResetTimeouts,
              minimumThroughput : MinimumThroughputs] : ValidConfig(cfg)}

\* MetricsCollector.maxResponseTimes
maxResponseTimes == 100

VARIABLES
    config,               \* CircuitBreaker.config
    now,                  \* Date.now()
    currentState,         \* StateManager.currentState
    lastStateChange,      \* StateManager.lastStateChange
    fdRecords,            \* FailureDetector.slidingWindow.records
    consecutiveFailures,  \* FailureDetector.consecutiveFailures
    totalCalls,           \* MetricsCollector.totalCalls
    successfulCalls,      \* MetricsCollector.successfulCalls
    failedCalls,          \* MetricsCollector.failedCalls
    mcRecords,            \* MetricsCollector.slidingWindow.records
    responseTimes,        \* MetricsCollector.responseTimes
    lastFailureTime,      \* CircuitBreaker.lastFailureTime: <<>> is undefined, <<t>> a Date
    invalidTransition,    \* StateManager.transitionTo has thrown
    calls,                \* the execute() calls, one record per slot
    resetsInARow,         \* how many reset() calls led here with nothing between (0, 1, 2 = two or more)
    swMaxSize,            \* SlidingWindow.maxSize
    swRecords,            \* SlidingWindow.records
    swAdded,              \* the records passed to add() since the last clear(), oldest first
    ctorOptions,          \* the argument of new CircuitBreaker(): per field <<>> (absent) or <<value>>
    ctorOutcome,          \* "none" before the constructor ran, then "constructed" or "threw"
    returned,             \* what the last observer calls returned to the caller, oldest first
    timer,                \* a Timer: duration, startTime, timeoutId, promise (<<>> is undefined)
    timeouts,             \* the setTimeout() entries not yet fired or cleared
    timerLog,             \* what the Timer's caller has seen: calls made, callbacks run, last return value
    inFlight,             \* the admission times of the execute() calls awaiting their race, oldest first
    history               \* the outcomes handled since construction or the last reset(), oldest first

breakerVars == <<currentState, lastStateChange, fdRecords, consecutiveFailures,
                 totalCalls, successfulCalls, failedCalls, mcRecords,
                 responseTimes, lastFailureTime, invalidTransition>>
\* The variables of the circuit breaker and its callers.
circuitVars == <<config, now, breakerVars, calls, resetsInARow>>

\* A SlidingWindow used on its own.
windowVars == <<swMaxSize, swRecords, swAdded>>

\* The components exercised on their own, outside a breaker.
\* The call of the constructor.
ctorVars == <<ctorOptions, ctorOutcome>>

\* A Timer used on its own.
timerVars == <<timer, timeouts, timerLog>>

\* The calls in flight and the outcomes handled, for the specifications
\* that follow a breaker without giving each call a slot.
flightVars == <<inFlight, history>>

compVars == <<windowVars, ctorVars, returned, timerVars, flightVars>>

vars == <<circuitVars, compVars>>

\* The breaker's fields as one value, so that the methods compose.
Breaker ==
    [currentState |-> currentState, lastStateChange |-> lastStateChange,
     fdRecords |-> fdRecords, consecutiveFailures |-> consecutiveFailures,
     totalCalls |-> totalCalls, successfulCalls |-> successfulCalls,
     failedCalls |-> failedCalls, mcRecords |-> mcRecords,
     responseTimes |-> responseTimes, lastFailureTime |-> lastFailureTime,
     invalidTransition |-> invalidTransition]

Install(b) ==
    /\ currentState' = b.currentState
    /\ lastStateChange' = b.lastStateChange
    /\ fdRecords' = b.fdRecords
    /\ consecutiveFailures' = b.consecutiveFailures
    /\ totalCalls' = b.totalCalls
    /\ successfulCalls' = b.successfulCalls
    /\ failedCalls' = b.failedCalls
    /\ mcRecords' = b.mcRecords
    /\ responseTimes' = b.responseTimes
    /\ lastFailureTime' = b.lastFailureTime
    /\ invalidTransition' = b.invalidTransition

\* ------------------------------------------------------- SlidingWindow.ts
\* add() that evicts as soon as the window is full.
WindowAddEarly(records, record, maxSize) ==
    LET pushed == Append(records, record)
    IN  IF Len(pushed) >= maxSize THEN Tail(pushed) ELSE pushed

WindowAdd(records, record, maxSize) ==
    LET pushed == Append(records, record)
    IN  IF Len(pushed) > maxSize THEN Tail(pushed) ELSE pushed

\* clear() that drops only the oldest record.
WindowDropOldest(records) == IF records = <<>> THEN <<>> ELSE Tail(records)

WindowClear(records) == <<>>

\* records.filter(p).length
RECURSIVE CountWhere(_, _)
CountWhere(records, flag) ==
    IF records = <<>> THEN 0
    ELSE (IF Head(records) = flag THEN 1 ELSE 0) + CountWhere(Tail(records), flag)

\* A window of three times minimumThroughput.
WindowSizeThrice(cfg) == cfg.minimumThroughput * 3

\* Both windows are built with capacity minimumThroughput * 2.
WindowSize(cfg) == cfg.minimumThroughput * 2

\* -------------------------------------------------------- StateManager.ts
\* The table without its OPEN entry.
IsValidTransitionNoProbe(from, to) ==
    \/ from = to
    \/ /\ from = CLOSED
       /\ to \in {OPEN}
    \/ /\ from = HALF_OPEN
       /\ to \in {CLOSED, OPEN}

\* The table without the same-state rule.
IsValidTransitionStrict(from, to) ==
    \/ /\ from = CLOSED
       /\ to \in {OPEN}
    \/ /\ from = OPEN
       /\ to \in {HALF_OPEN}
    \/ /\ from = HALF_OPEN
       /\ to \in {CLOSED, OPEN}

IsValidTransition(from, to) ==
    \/ from = to
    \/ /\ from = CLOSED
       /\ to \in {OPEN}
    \/ /\ from = OPEN
       /\ to \in {HALF_OPEN}
    \/ /\ from = HALF_OPEN
       /\ to \in {CLOSED, OPEN}

\* transitionTo that stamps lastStateChange before it validates.
TransitionToStamped(b, newState, t) ==
    IF ~IsValidTransition(b.currentState, newState)
    THEN [b EXCEPT !.invalidTransition = TRUE, !.lastStateChange = t]
    ELSE [b EXCEPT !.currentState = newState, !.lastStateChange = t]

\* transitionTo that returns at once when the state is already the target.
TransitionToNoRefresh(b, newState, t) ==
    IF ~IsValidTransition(b.currentState, newState)
    THEN [b EXCEPT !.invalidTransition = TRUE]
    ELSE IF b.currentState = newState
    THEN b
    ELSE [b EXCEPT !.currentState = newState, !.lastStateChange = t]

\* transitionTo at time t; a throw leaves the fields alone and is recorded.
TransitionTo(b, newState, t) ==
    IF ~IsValidTransition(b.currentState, newState)
    THEN [b EXCEPT !.invalidTransition = TRUE]
    ELSE [b EXCEPT !.currentState = newState, !.lastStateChange = t]

StateManagerReset(b, t) ==
    [b EXCEPT !.currentState = CLOSED, !.lastStateChange = t]

\* ------------------------------------------- FailureDetector (StateManager.ts)
FailureRecord(isFailure) == [isFailure |-> isFailure]

\* recordSuccess that leaves the consecutive-failure counter alone.
FdRecordSuccessKeepsCount(b, cfg) ==
    [b EXCEPT !.fdRecords = WindowAdd(@, FailureRecord(FALSE), WindowSize(cfg))]

FdRecordSuccess(b, cfg) ==
    [b EXCEPT !.consecutiveFailures = 0,
              !.fdRecords = WindowAdd(@, FailureRecord(FALSE), WindowSize(cfg))]

FdRecordFailure(b, cfg) ==
    [b EXCEPT !.consecutiveFailures = @ + 1,
              !.fdRecords = WindowAdd(@, FailureRecord(TRUE), WindowSize(cfg))]

\* shouldOpenCircuit without the minimum-throughput guard.
ShouldOpenCircuitNoMinimum(records, cfg) ==
    LET failures == CountWhere(records, FailureRecord(TRUE))
    IN  /\ records # <<>>
        /\ \/ failures >= cfg.failureThreshold
           \/ failures * cfg.failureRateThreshold.den
                  >= cfg.failureRateThreshold.num * Len(records)

\* shouldOpenCircuit that wants both thresholds reached.
ShouldOpenCircuitBoth(records, cfg) ==
    IF Len(records) < cfg.minimumThroughput
    THEN FALSE
    ELSE LET failures == CountWhere(records, FailureRecord(TRUE))
         IN  /\ failures >= cfg.failureThreshold
             /\ failures * cfg.failureRateThreshold.den
                    >= cfg.failureRateThreshold.num * Len(records)

\* shouldOpenCircuit with strict comparisons.
ShouldOpenCircuitStrict(records, cfg) ==
    IF Len(records) <= cfg.minimumThroughput
    THEN FALSE
    ELSE LET failures == CountWhere(records, FailureRecord(TRUE))
         IN  \/ failures > cfg.failureThreshold
             \/ failures * cfg.failureRateThreshold.den
                    > cfg.failureRateThreshold.num * Len(records)

ShouldOpenCircuit(records, cfg) ==
    IF Len(records) < cfg.minimumThroughput
    THEN FALSE
    ELSE LET failures == CountWhere(records, FailureRecord(TRUE))
         IN  \/ failures >= cfg.failureThreshold
             \/ failures * cfg.failureRateThreshold.den
                    >= cfg.failureRateThreshold.num * Len(records)

FailureDetectorReset(b) ==
    [b EXCEPT !.consecutiveFailures = 0, !.fdRecords = WindowClear(@)]

\* -------------------------------------------------------- MetricsCollector
CallRecord(isSuccess) == [isSuccess |-> isSuccess]

\* recordResponseTime that refuses the new time once the array is full.
RecordResponseTimeKeepsOldest(times, responseTime) ==
    IF Len(times) >= maxResponseTimes THEN times ELSE Append(times, responseTime)

RecordResponseTime(times, responseTime) ==
    LET pushed == Append(times, responseTime)
    IN  IF Len(pushed) > maxResponseTimes THEN Tail(pushed) ELSE pushed

McRecordSuccess(b, responseTime, cfg) ==
    [b EXCEPT !.totalCalls = @ + 1,
              !.successfulCalls = @ + 1,
              !.responseTimes = RecordResponseTime(@, responseTime),
              !.mcRecords = WindowAdd(@, CallRecord(TRUE), WindowSize(cfg))]

\* recordFailure that leaves totalCalls alone.
McRecordFailureUncounted(b, responseTime, cfg) ==
    [b EXCEPT !.failedCalls = @ + 1,
              !.responseTimes = RecordResponseTime(@, responseTime),
              !.mcRecords = WindowAdd(@, CallRecord(FALSE), WindowSize(cfg))]

McRecordFailure(b, responseTime, cfg) ==
    [b EXCEPT !.totalCalls = @ + 1,
              !.failedCalls = @ + 1,
              !.responseTimes = RecordResponseTime(@, responseTime),
              !.mcRecords = WindowAdd(@, CallRecord(FALSE), WindowSize(cfg))]

MetricsCollectorReset(b) ==
    [b EXCEPT !.totalCalls = 0, !.successfulCalls = 0, !.failedCalls = 0,
              !.responseTimes = <<>>, !.mcRecords = WindowClear(@)]

\* failedCalls / totalCalls as a fraction, 0 when totalCalls = 0.
CalculateFailureRate(b) ==
    IF b.totalCalls = 0 THEN [num |-> 0, den |-> 1]
    ELSE [num |-> b.failedCalls, den |-> b.totalCalls]

\* getFailureRate: the failure fraction of the window, 0 when it is empty.
McGetFailureRate(b) ==
    IF Len(b.mcRecords) = 0 THEN [num |-> 0, den |-> 1]
    ELSE [num |-> CountWhere(b.mcRecords, CallRecord(FALSE)),
          den |-> Len(b.mcRecords)]

\* getWindowStats that reports the lifetime failure rate.
GetWindowStatsLifetime(b, cfg) ==
    [windowSize |-> WindowSize(cfg),
     currentCount |-> Len(b.mcRecords),
     failureRate |-> CalculateFailureRate(b)]

GetWindowStats(b, cfg) ==
    [windowSize |-> WindowSize(cfg),
     currentCount |-> Len(b.mcRecords),
     failureRate |-> McGetFailureRate(b)]

RECURSIVE SumOf(_)
SumOf(times) ==
    IF times = <<>> THEN 0 ELSE Head(times) + SumOf(Tail(times))

\* A quotient is kept as its two terms.
CalculateAverageResponseTime(b) ==
    IF Len(b.responseTimes) = 0 THEN [num |-> 0, den |-> 1]
    ELSE [num |-> SumOf(b.responseTimes), den |-> Len(b.responseTimes)]

\* A Date object holding the instant ms.
Date(ms) == [ms |-> ms]

\* getMetrics: the snapshot object.  nextAttempt is <<>> (undefined) or
\* <<ms>>; the spread of (nextAttempt && {nextAttempt}) adds the member only
\* when a Date was passed.
McGetMetrics(b, state, lastChange, nextAttempt) ==
    LET snapshot ==
            [state |-> state,
             totalCalls |-> b.totalCalls,
             successfulCalls |-> b.successfulCalls,
             failedCalls |-> b.failedCalls,
             failureRate |-> CalculateFailureRate(b),
             averageResponseTime |-> CalculateAverageResponseTime(b),
             lastStateChange |-> Date(lastChange)]
    IN  IF nextAttempt = <<>> THEN snapshot
        ELSE [key \in DOMAIN snapshot \cup {"nextAttempt"} |->
                 IF key = "nextAttempt" THEN Date(nextAttempt[1])
                 ELSE snapshot[key]]

\* ------------------------------------------------------------------- JSON
\* A JSON text is kept as its syntax tree: a number literal, a string
\* literal, or an object with its members in the order they were written.
\* The members of the snapshot in insertion order.
MetricsKeys ==
    <<"state", "totalCalls", "successfulCalls", "failedCalls", "failureRate",
      "averageResponseTime", "lastStateChange", "nextAttempt">>

RECURSIVE GCD(_, _)
GCD(a, b) == IF b = 0 THEN a ELSE GCD(b, a % b)

\* The number a quotient evaluates to, in lowest terms: the literal written
\* for 2/4 is the one written for 1/2.
NumberOf(q) ==
    LET d == GCD(q.num, q.den)
    IN  [num |-> q.num \div d, den |-> q.den \div d]

\* Date.prototype.toISOString: a string that names the instant.
ToISOString(date) == [iso |-> date.ms]

\* JSON.stringify of one member of the snapshot: strings are quoted, numbers
\* written out, a Date is replaced by its toJSON(), the ISO string.
StringifyMember(key, value) ==
    CASE key = "state" -> [json |-> "string", text |-> value]
      [] key \in {"totalCalls", "successfulCalls", "failedCalls"} ->
             [json |-> "number", text |-> value]
      [] key \in {"failureRate", "averageResponseTime"} ->
             [json |-> "number", text |-> NumberOf(value)]
      [] key \in {"lastStateChange", "nextAttempt"} ->
             [json |-> "string", text |-> ToISOString(value)]

\* JSON.stringify of the snapshot: the members the object has, in order.
StringifyMetrics(metrics) ==
    LET keys == SelectSeq(MetricsKeys, LAMBDA key : key \in DOMAIN metrics)
    IN  [json |-> "object",
         members |-> [i \in 1..Len(keys) |->
                         [key |-> keys[i],
                          text |-> StringifyMember(keys[i], metrics[keys[i]])]]]

\* JSON.parse: objects become objects, literals their values; an ISO string
\* stays a string, no Date is revived.
RECURSIVE JsonParse(_)
JsonParse(text) ==
    IF text.json = "object"
    THEN LET members == text.members
             keys == {members[i].key : i \in 1..Len(members)}
             last(key) ==
                 CHOOSE i \in 1..Len(members) :
                     /\ members[i].key = key
                     /\ \A j \in (i + 1)..Len(members) : members[j].key # key
         IN  [key \in keys |-> JsonParse(members[last(key)].text)]
    ELSE text.text

\* exportJSON that reports the window's call count as totalCalls.
ExportJSONWindow(b, state, lastChange, nextAttempt, t) ==
    LET metrics ==
            McGetMetrics([b EXCEPT !.totalCalls = Len(b.mcRecords)],
                         state, lastChange, nextAttempt)
    IN  [json |-> "object",
         members |->
             <<[key |-> "timestamp",
                text |-> [json |-> "string", text |-> ToISOString(Date(t))]],
               [key |-> "circuitBreaker", text |-> StringifyMetrics(metrics)]>>]

\* exportJSON at time t: { timestamp, circuitBreaker: getMetrics(...) }.
ExportJSON(b, state, lastChange, nextAttempt, t) ==
    LET metrics == McGetMetrics(b, state, lastChange, nextAttempt)
    IN  [json |-> "object",
         members |->
             <<[key |-> "timestamp",
                text |-> [json |-> "string", text |-> ToISOString(Date(t))]],
               [key |-> "circuitBreaker", text |-> StringifyMetrics(metrics)]>>]

\* --------------------------------------------------------- CircuitBreaker.ts
\* The elapsed-time comparison turned around.
ShouldAttemptResetEarly(b, cfg, t) ==
    IF b.lastFailureTime = <<>> THEN TRUE
    ELSE t - b.lastFailureTime[1] <= cfg.resetTimeout

\* The probe allowed only after more than resetTimeout.
ShouldAttemptResetStrict(b, cfg, t) ==
    IF b.lastFailureTime = <<>> THEN TRUE
    ELSE t - b.lastFailureTime[1] > cfg.resetTimeout

ShouldAttemptReset(b, cfg, t) ==
    IF b.lastFailureTime = <<>> THEN TRUE
    ELSE t - b.lastFailureTime[1] >= cfg.resetTimeout

\* getNextAttemptTime without the test of the state.
GetNextAttemptTimeAnyState(b, cfg) ==
    IF b.lastFailureTime = <<>> THEN <<>>
    ELSE <<b.lastFailureTime[1] + cfg.resetTimeout>>

\* <<>> is undefined.
GetNextAttemptTime(b, cfg) ==
    IF b.currentState # OPEN \/ b.lastFailureTime = <<>> THEN <<>>
    ELSE <<b.lastFailureTime[1] + cfg.resetTimeout>>

GetMetrics(b, cfg) ==
    McGetMetrics(b, b.currentState, b.lastStateChange, GetNextAttemptTime(b, cfg))

\* onSuccess that records the outcome and never closes the circuit.
OnSuccessNoClose(b, responseTime, cfg, t) ==
    FdRecordSuccess(McRecordSuccess(b, responseTime, cfg), cfg)

\* onSuccess that also leaves OPEN, through the state manager's reset.
OnSuccessLeavesOpen(b, responseTime, cfg, t) ==
    LET recorded == FdRecordSuccess(McRecordSuccess(b, responseTime, cfg), cfg)
    IN  IF recorded.currentState = HALF_OPEN
        THEN TransitionTo(recorded, CLOSED, t)
        ELSE IF recorded.currentState = OPEN
        THEN StateManagerReset(recorded, t)
        ELSE recorded

\* onSuccess that starts the evaluator afresh when it closes the circuit.
OnSuccessClears(b, responseTime, cfg, t) ==
    LET recorded == FdRecordSuccess(McRecordSuccess(b, responseTime, cfg), cfg)
    IN  IF recorded.currentState = HALF_OPEN
        THEN FailureDetectorReset(TransitionTo(recorded, CLOSED, t))
        ELSE recorded

\* onSuccess; invalidTransition is set when transitionTo threw inside it.
OnSuccess(b, responseTime, cfg, t) ==
    LET recorded == FdRecordSuccess(McRecordSuccess(b, responseTime, cfg), cfg)
    IN  IF recorded.currentState = HALF_OPEN
        THEN TransitionTo(recorded, CLOSED, t)
        ELSE recorded

\* onFailure that keeps the time of the failure that opened the circuit.
OnFailureKeepsOpeningTime(b, responseTime, cfg, t) ==
    LET recorded == FdRecordFailure(McRecordFailure(b, responseTime, cfg), cfg)
        stamped ==
            IF b.currentState = OPEN THEN recorded
            ELSE [recorded EXCEPT !.lastFailureTime = <<t>>]
    IN  IF ShouldOpenCircuit(stamped.fdRecords, cfg)
        THEN TransitionTo(stamped, OPEN, t)
        ELSE stamped

\* onFailure that opens the circuit without noting the time of the failure.
OnFailureUnstamped(b, responseTime, cfg, t) ==
    LET recorded == FdRecordFailure(McRecordFailure(b, responseTime, cfg), cfg)
    IN  IF ShouldOpenCircuit(recorded.fdRecords, cfg)
        THEN TransitionTo(recorded, OPEN, t)
        ELSE [recorded EXCEPT !.lastFailureTime = <<t>>]

OnFailure(b, responseTime, cfg, t) ==
    LET recorded == FdRecordFailure(McRecordFailure(b, responseTime, cfg), cfg)
        stamped == [recorded EXCEPT !.lastFailureTime = <<t>>]
    IN  IF ShouldOpenCircuit(stamped.fdRecords, cfg)
        THEN TransitionTo(stamped, OPEN, t)
        ELSE stamped

\* reset() that leaves lastFailureTime alone.
BreakerResetKeepsFailureTime(b, t) ==
    MetricsCollectorReset(FailureDetectorReset(StateManagerReset(b, t)))

BreakerReset(b, t) ==
    LET cleared == MetricsCollectorReset(FailureDetectorReset(StateManagerReset(b, t)))
    IN  [cleared EXCEPT !.lastFailureTime = <<>>]

\* ------------------------------------------------------------ execute() calls
\* pc:          idle, pending (awaiting the race), done (settled, the result
\*              not yet received by the caller) or late (received; the loser
\*              of the race is still outstanding)
\* admission:   which branch of execute()'s state check the call took
\* invocations: how many times the operation was called
\* invokedIn:   the circuit state at the moment the operation was called
\* operation:   the operation's own promise
\* value:       the value the operation resolved or rejected with
\* timer:       the setTimeout of createTimeoutPromise
\* result:      what execute() settled with
IdleCall ==
    [pc |-> "idle", startTime |-> 0, admission |-> "none", invocations |-> 0,
     invokedIn |-> "none", operation |-> "none", value |-> "none",
     timer |-> "none",
     result |-> <<"none">>]

DeniedCall ==
    [IdleCall EXCEPT !.pc = "done", !.admission = "denied",
                     !.result = <<"CircuitBreakerError">>]

ThrownCall ==
    [IdleCall EXCEPT !.pc = "done", !.admission = "probe",
                     !.result = <<"InvalidTransition">>]

InvokedCall(admission, state, t) ==
    [IdleCall EXCEPT !.pc = "pending", !.startTime = t, !.admission = admission,
                     !.invocations = 1, !.invokedIn = state,
                     !.operation = "running", !.timer = "armed"]

\* What stays of a settled call once its caller has the result.
Leftover(call) ==
    IF call.timer = "armed" \/ call.operation = "running"
    THEN [IdleCall EXCEPT !.pc = "late", !.startTime = call.startTime,
                          !.operation = call.operation, !.timer = call.timer]
    ELSE IdleCall

Pending == {c \in Calls : calls[c].pc = "pending"}

\* The slot a new call takes: the first idle one, else the first one that
\* only holds the loser of a race; 0 when every slot is awaiting.
Lowest(S) == CHOOSE c \in S : \A d \in S : c <= d

FreeSlot ==
    LET idle == {c \in Calls : calls[c].pc = "idle"}
        late == {c \in Calls : calls[c].pc = "late"}
    IN  IF idle # {} THEN Lowest(idle)
        ELSE IF late # {} THEN Lowest(late) ELSE 0

\* No settled call is waiting for its caller.
Delivered == \A c \in Calls : calls[c].pc # "done"

\* No stand-alone window is in use.
WindowIdle ==
    /\ swMaxSize = 1
    /\ swRecords = <<>>
    /\ swAdded = <<>>

\* A breaker as its constructor leaves it, no call made.
InitBreaker ==
    /\ config \in Configs
    /\ now = 0
    /\ currentState = CLOSED
    /\ lastStateChange = 0
    /\ fdRecords = <<>>
    /\ consecutiveFailures = 0
    /\ totalCalls = 0
    /\ successfulCalls = 0
    /\ failedCalls = 0
    /\ mcRecords = <<>>
    /\ responseTimes = <<>>
    /\ lastFailureTime = <<>>
    /\ invalidTransition = FALSE
    /\ calls = [c \in Calls |-> IdleCall]
    /\ resetsInARow = 0

\* The breaker was built from options that spell out its configuration.
CtorDone ==
    /\ ctorOptions = Given(config)
    /\ ctorOutcome = "constructed"

\* A Timer as its constructor leaves it.
NewTimer(duration) ==
    [duration |-> duration, startTime |-> <<>>, timeoutId |-> <<>>,
     promise |-> <<>>]

\* Nothing has been asked of the timer.
NoTimerCalls ==
    [starts |-> 0, passed |-> {}, ignored |-> {}, stopped |-> {},
     invoked |-> <<>>, resolved |-> {}, returned |-> <<"none">>]

\* No stand-alone timer is in use.
TimerIdle ==
    /\ timer = NewTimer(1)
    /\ timeouts = {}
    /\ timerLog = NoTimerCalls

\* No call is followed without a slot.
FlightIdle ==
    /\ inFlight = <<>>
    /\ history = <<>>

Init ==
    /\ InitBreaker
    /\ WindowIdle
    /\ CtorDone
    /\ returned = <<>>
    /\ FlightIdle
    /\ TimerIdle

\* execute() whose denial is thrown inside the try block, so that the catch
\* block counts it as a failure.
ExecuteDeniedCounted(c) ==
    /\ Delivered
    /\ c = FreeSlot
    /\ totalCalls + Cardinality(Pending) < MaxTotalCalls
    /\ LET b == Breaker
           probe == b.currentState = OPEN /\ ShouldAttemptReset(b, config, now)
           denied == b.currentState = OPEN /\ ~ShouldAttemptReset(b, config, now)
           checked ==
               IF probe THEN TransitionTo(b, HALF_OPEN, now)
               ELSE IF denied THEN OnFailure(b, 0, config, now) ELSE b
           admission ==
               IF probe THEN "probe"
               ELSE IF b.currentState = HALF_OPEN THEN "half_open" ELSE "closed"
       IN  /\ Install(checked)
           /\ calls' = [calls EXCEPT ![c] =
                  IF denied THEN DeniedCall
                  ELSE InvokedCall(admission, checked.currentState, now)]
    /\ resetsInARow' = 0
    /\ UNCHANGED <<compVars, config, now>>

\* execute(), lines 60-78: the state check, then the operation is called and
\* the timer armed; the call then awaits the race.
Execute(c) ==
    /\ Delivered
    /\ c = FreeSlot
    /\ totalCalls + Cardinality(Pending) < MaxTotalCalls
    /\ LET b == Breaker
           probe == b.currentState = OPEN /\ ShouldAttemptReset(b, config, now)
           denied == b.currentState = OPEN /\ ~ShouldAttemptReset(b, config, now)
           checked == IF probe THEN TransitionTo(b, HALF_OPEN, now) ELSE b
           threw == checked.invalidTransition /\ ~b.invalidTransition
           admission ==
               IF probe THEN "probe"
               ELSE IF b.currentState = HALF_OPEN THEN "half_open" ELSE "closed"
       IN  /\ Install(checked)
           /\ calls' = [calls EXCEPT ![c] =
                  IF denied THEN DeniedCall
                  ELSE IF threw THEN ThrownCall
                  ELSE InvokedCall(admission, checked.currentState, now)]
    /\ resetsInARow' = 0
    /\ UNCHANGED <<compVars, config, now>>

\* The continuation with a catch block that reports the opening of the
\* circuit instead of the error it caught.
SettleReportsOpening(c, outcome, t) ==
    LET b == Breaker
        responseTime == t - calls[c].startTime
        after ==
            IF outcome[1] = "resolved" THEN OnSuccess(b, responseTime, config, t)
            ELSE OnFailure(b, responseTime, config, t)
        opened == b.currentState # OPEN /\ after.currentState = OPEN
    IN  [breaker |-> after,
         result |-> IF opened THEN <<"CircuitBreakerError">> ELSE outcome]

\* The continuation with a catch block that counts Error instances only.
SettleClassified(c, outcome, t) ==
    LET b == Breaker
        responseTime == t - calls[c].startTime
        counted == outcome[1] = "TimeoutError" \/ outcome = <<"OperationError", "Error">>
    IN  [breaker |->
             IF outcome[1] = "resolved" THEN OnSuccess(b, responseTime, config, t)
             ELSE IF counted THEN OnFailure(b, responseTime, config, t)
             ELSE b,
         result |-> outcome]

\* The continuation of execute() after the race settled, lines 79-84.
\* A throw inside onSuccess lands in the catch block, which runs onFailure.
Settle(c, outcome, t) ==
    LET b == Breaker
        responseTime == t - calls[c].startTime
        succeeded == OnSuccess(b, responseTime, config, t)
        successThrew == succeeded.invalidTransition /\ ~b.invalidTransition
        failed ==
            IF outcome[1] = "resolved"
            THEN OnFailure(succeeded, responseTime, config, t)
            ELSE OnFailure(b, responseTime, config, t)
        after ==
            IF outcome[1] = "resolved" /\ ~successThrew THEN succeeded ELSE failed
        failureThrew == after.invalidTransition /\ ~b.invalidTransition
    IN  [breaker |-> after,
         result |-> IF failureThrew THEN <<"InvalidTransition">> ELSE outcome]

\* The operation resolves with v before the timer fires.
OperationSucceeds(c, v) ==
    /\ Delivered
    /\ calls[c].pc = "pending"
    /\ LET s == Settle(c, <<"resolved", v>>, now)
       IN  /\ Install(s.breaker)
           /\ calls' = [calls EXCEPT ![c].pc = "done",
                                     ![c].operation = "resolved",
                                     ![c].value = v,
                                     ![c].result = s.result]
    /\ resetsInARow' = 0
    /\ UNCHANGED <<compVars, config, now>>

\* A rejection answered by calling the operation again.
OperationFailsRetried(c, e) ==
    /\ Delivered
    /\ calls[c].pc = "pending"
    /\ calls' = [calls EXCEPT ![c].invocations = @ + 1]
    /\ calls[c].invocations < 2
    /\ resetsInARow' = 0
    /\ UNCHANGED <<compVars, config, now, breakerVars>>

\* The operation rejects with e (or throws it) before the timer fires.
OperationFails(c, e) ==
    /\ Delivered
    /\ calls[c].pc = "pending"
    /\ LET s == Settle(c, <<"OperationError", e>>, now)
       IN  /\ Install(s.breaker)
           /\ calls' = [calls EXCEPT ![c].pc = "done",
                                     ![c].operation = "rejected",
                                     ![c].value = e,
                                     ![c].result = s.result]
    /\ resetsInARow' = 0
    /\ UNCHANGED <<compVars, config, now>>

\* The timer of createTimeoutPromise fires while the operation is running.
TimeoutFires(c) ==
    /\ Delivered
    /\ calls[c].pc = "pending"
    /\ now - calls[c].startTime >= config.timeout
    /\ LET s == Settle(c, <<"TimeoutError">>, now)
       IN  /\ Install(s.breaker)
           /\ calls' = [calls EXCEPT ![c].pc = "done",
                                     ![c].timer = "fired",
                                     ![c].result = s.result]
    /\ resetsInARow' = 0
    /\ UNCHANGED <<compVars, config, now>>

\* The operation's late outcome handled as if no race had been decided.
LateCompletionHandled(c) ==
    /\ Delivered
    /\ calls[c].pc = "late"
    /\ calls[c].operation = "running"
    /\ \E o \in {<<"resolved", "a">>, <<"OperationError", "Error">>} :
           Install(Settle(c, o, now).breaker)
    /\ calls' = [calls EXCEPT ![c] = IdleCall]
    /\ resetsInARow' = 0
    /\ UNCHANGED <<compVars, config, now>>

\* Promise.race (line 133) has settled with the timer's rejection; the
\* operation's own promise settles later and nothing listens to it.
LateCompletion(c) ==
    /\ Delivered
    /\ calls[c].pc = "late"
    /\ calls[c].operation = "running"
    /\ \E o \in {"resolved", "rejected"} :
           calls' = [calls EXCEPT ![c] = Leftover([@ EXCEPT !.operation = o])]
    /\ resetsInARow' = 0
    /\ UNCHANGED <<compVars, config, now, breakerVars>>

\* The late firing of the timer handled as a second outcome of the call.
LateTimerHandled(c) ==
    /\ Delivered
    /\ calls[c].pc = "late"
    /\ calls[c].timer = "armed"
    /\ now - calls[c].startTime >= config.timeout
    /\ Install(Settle(c, <<"TimeoutError">>, now).breaker)
    /\ calls' = [calls EXCEPT ![c] = Leftover([@ EXCEPT !.timer = "fired"])]
    /\ resetsInARow' = 0
    /\ UNCHANGED <<compVars, config, now>>

\* The race has settled with the operation's outcome; the timer, never
\* cleared, fires later and its reject() has no effect.
LateTimer(c) ==
    /\ Delivered
    /\ calls[c].pc = "late"
    /\ calls[c].timer = "armed"
    /\ now - calls[c].startTime >= config.timeout
    /\ calls' = [calls EXCEPT ![c] = Leftover([@ EXCEPT !.timer = "fired"])]
    /\ resetsInARow' = 0
    /\ UNCHANGED <<compVars, config, now, breakerVars>>

\* The caller of execute() receives the result or the error.
Deliver(c) ==
    /\ calls[c].pc = "done"
    /\ calls' = [calls EXCEPT ![c] = Leftover(@)]
    /\ resetsInARow' = 0
    /\ UNCHANGED <<compVars, config, now, breakerVars>>

\* reset(), lines 111-116.
Reset ==
    /\ Delivered
    /\ Install(BreakerReset(Breaker, now))
    /\ resetsInARow' = IF resetsInARow < 2 THEN resetsInARow + 1 ELSE 2
    /\ UNCHANGED <<compVars, config, now, calls>>

\* Time passes.  A timer that is due fires before the clock moves on, so a
\* call is settled at most `timeout` after it was admitted.
TimerDue(c) ==
    /\ calls[c].timer = "armed"
    /\ now - calls[c].startTime >= config.timeout

Tick ==
    /\ Delivered
    /\ now < MaxTime
    /\ \A c \in Calls : ~TimerDue(c)
    /\ now' = now + 1
    /\ resetsInARow' = 0
    /\ UNCHANGED <<compVars, config, breakerVars, calls>>

Next ==
    \/ \E c \in Calls : Execute(c)
    \/ \E c \in Calls, v \in Values : OperationSucceeds(c, v)
    \/ \E c \in Calls, e \in Errors : OperationFails(c, e)
    \/ \E c \in Calls : TimeoutFires(c)
    \/ \E c \in Calls : LateCompletion(c)
    \/ \E c \in Calls : LateTimer(c)
    \/ \E c \in Calls : Deliver(c)
    \/ Reset
    \/ Tick

Spec == Init /\ [][Next]_vars

\* ------------------------------------------ StateManager driven on its own
\* A StateManager used directly, as its unit tests do: any target may be
\* requested in any state.  invalidTransition tells whether the last call
\* of transitionTo threw.
SmTransitionTo(target) ==
    /\ Install(TransitionTo([Breaker EXCEPT !.invalidTransition = FALSE],
                            target, now))
    /\ UNCHANGED <<compVars, config, now, calls, resetsInARow>>

SmReset ==
    /\ Install(StateManagerReset([Breaker EXCEPT !.invalidTransition = FALSE],
                                 now))
    /\ UNCHANGED <<compVars, config, now, calls, resetsInARow>>

SmTick ==
    /\ now < MaxTime
    /\ now' = now + 1
    /\ UNCHANGED <<compVars, config, breakerVars, calls, resetsInARow>>

SmNext ==
    \/ \E target \in CircuitState : SmTransitionTo(target)
    \/ SmReset
    \/ SmTick

SpecStateManager == Init /\ [][SmNext]_vars

\* ------------------------------------------------------------ the observers
\* One breaker configuration, for the specifications that do not vary it.
SomeConfig == CHOOSE cfg \in Configs : TRUE

\* An object handed to the caller: the call that returned it, the identity
\* of the object and its contents.  Identity 0 is the breaker's own
\* this.config; an object literal or a spread creates an identity no live
\* object has.
ThisConfig == 0

FreshRef ==
    CHOOSE ref \in 1..(Len(returned) + 1) :
        \A i \in 1..Len(returned) : returned[i].ref # ref

\* getConfig that hands out this.config itself.
GetConfigShared(cfg) ==
    [kind |-> "getConfig", ref |-> ThisConfig, value |-> cfg]

\* getConfig, lines 122-124: { ...this.config }.
GetConfig(cfg) ==
    [kind |-> "getConfig", ref |-> FreshRef, value |-> cfg]

\* The caller keeps the result of an observer call, and that of calling the
\* same observer once more.
Observe(result) ==
    /\ Len(returned) <= 1
    /\ returned # <<>> => returned[1].kind = result.kind
    /\ returned' = Append(returned, result)
    /\ UNCHANGED <<circuitVars, windowVars, ctorVars, timerVars, flightVars>>

ObserveGetConfig == Observe(GetConfig(config))

ObserveGetState ==
    Observe([kind |-> "getState", ref |-> FreshRef, value |-> currentState])

\* getMetrics that hands out the object of the previous call again.
ObserveGetMetricsCached ==
    Observe([kind |-> "getMetrics",
             ref |-> IF returned # <<>> /\ returned[1].kind = "getMetrics"
                     THEN returned[1].ref ELSE FreshRef,
             value |-> GetMetrics(Breaker, config)])

\* getMetrics, lines 99-105: the collector returns an object literal.
ObserveGetMetrics ==
    Observe([kind |-> "getMetrics", ref |-> FreshRef,
             value |-> GetMetrics(Breaker, config)])

ObserveGetWindowStats ==
    Observe([kind |-> "getWindowStats", ref |-> FreshRef,
             value |-> GetWindowStats(Breaker, config)])

ObserveExportJSON ==
    Observe([kind |-> "exportJSON", ref |-> FreshRef,
             value |-> ExportJSON(Breaker, currentState, lastStateChange,
                                  GetNextAttemptTime(Breaker, config), now)])

\* The caller writes failureThreshold = 10 into a configuration it was
\* handed; every holder of that object sees the write.
MutateReturned(i) ==
    /\ i \in 1..Len(returned)
    /\ returned[i].kind = "getConfig"
    /\ returned[i].value.failureThreshold # 10
    /\ LET written == [returned[i].value EXCEPT !.failureThreshold = 10]
       IN  /\ returned' =
                  [j \in 1..Len(returned) |->
                      IF returned[j].ref = returned[i].ref
                      THEN [returned[j] EXCEPT !.value = written]
                      ELSE returned[j]]
           /\ config' = IF returned[i].ref = ThisConfig THEN written ELSE config
    /\ UNCHANGED <<now, breakerVars, calls, resetsInARow, windowVars, ctorVars,
                   timerVars, flightVars>>

\* The caller drops what it was handed.
Forget ==
    /\ returned # <<>>
    /\ returned' = <<>>
    /\ UNCHANGED <<circuitVars, windowVars, ctorVars, timerVars, flightVars>>

\* A breaker used by one caller at a time, observed between the steps.
ObsNext ==
    \/ /\ returned = <<>>
       /\ Next
       /\ Cardinality(Pending') <= 1
    \/ ObserveGetConfig
    \/ ObserveGetState
    \/ ObserveGetMetrics
    \/ ObserveGetWindowStats
    \/ ObserveExportJSON
    \/ \E i \in {1, 2} : MutateReturned(i)
    \/ Forget

ObsInit ==
    /\ Init
    /\ config = SomeConfig

SpecObservers == ObsInit /\ [][ObsNext]_vars

\* ------------------------------------------------- components on their own
\* An idle breaker of one configuration.
BreakerIdle ==
    /\ InitBreaker
    /\ config = SomeConfig

\* --------------------------------------------------------- the constructor
\* The values tried for the numeric options and for failureRateThreshold.
OptionNumbers == {-1, 0, 1}
OptionRates ==
    {[num |-> -1, den |-> 2], [num |-> 0, den |-> 1], [num |-> 1, den |-> 2],
     [num |-> 1, den |-> 1], [num |-> 3, den |-> 2]}

\* An option is left out or given.
Optional(values) == {<<>>} \cup {<<value>> : value \in values}

CtorOptions ==
    [failureThreshold : Optional(OptionNumbers),
     failureRateThreshold : Optional(OptionRates),
     timeout : Optional(OptionNumbers),
     resetTimeout : Optional(OptionNumbers),
     minimumThroughput : Optional(OptionNumbers)]

\* Before new CircuitBreaker(options): config holds what the merge starts
\* from.
CtorInit ==
    /\ BreakerIdle
    /\ WindowIdle
    /\ ctorOptions \in CtorOptions
    /\ ctorOutcome = "none"
    /\ returned = <<>>
    /\ FlightIdle
    /\ TimerIdle

\* The constructor, lines 40-50: merge, validate, then build the
\* components; the two windows are built with minimumThroughput * 2, which
\* their constructor rejects when it is <= 0.
Construct ==
    /\ ctorOutcome = "none"
    /\ LET merged == MergeOptions(ctorOptions)
       IN  IF ~ValidConfig(merged) \/ WindowSize(merged) <= 0
           THEN /\ ctorOutcome' = "threw"
                /\ UNCHANGED config
           ELSE /\ ctorOutcome' = "constructed"
                /\ config' = merged
    /\ UNCHANGED <<now, breakerVars, calls, resetsInARow, windowVars, ctorOptions,
                   returned, timerVars, flightVars>>

CtorNext == Construct

SpecConstructor == CtorInit /\ [][CtorNext]_vars

\* ------------------------------------------- SlidingWindow driven on its own
\* The capacities a window is built with (the constructor rejects
\* maxSize <= 0) and the records added to it.
MaxSizes == {1, 2, 3}
WindowRecords == {"x", "y"}

SwInit ==
    /\ BreakerIdle
    /\ CtorDone
    /\ returned = <<>>
    /\ FlightIdle
    /\ TimerIdle
    /\ swMaxSize \in MaxSizes
    /\ swRecords = <<>>
    /\ swAdded = <<>>

SwAdd(record) ==
    /\ Len(swAdded) < MaxAdded
    /\ swRecords' = WindowAdd(swRecords, record, swMaxSize)
    /\ swAdded' = Append(swAdded, record)
    /\ UNCHANGED <<circuitVars, swMaxSize, ctorVars, returned, timerVars, flightVars>>

SwClear ==
    /\ swRecords' = WindowClear(swRecords)
    /\ swAdded' = <<>>
    /\ UNCHANGED <<circuitVars, swMaxSize, ctorVars, returned, timerVars, flightVars>>

SwNext ==
    \/ \E record \in WindowRecords : SwAdd(record)
    \/ SwClear

SpecSlidingWindow == SwInit /\ [][SwNext]_vars

\* ---------------------------------------------------- Timer driven on its own
\* The durations a timer is built with (the constructor rejects
\* duration <= 0).
Durations == {1, 2}

TmInit ==
    /\ BreakerIdle
    /\ CtorDone
    /\ WindowIdle
    /\ returned = <<>>
    /\ FlightIdle
    /\ \E duration \in Durations : timer = NewTimer(duration)
    /\ timeouts = {}
    /\ timerLog = NoTimerCalls

\* isRunning(), lines 93-95.
IsRunning(tm) == tm.timeoutId # <<>>

\* cleanup(), lines 111-116: clearTimeout(this.timeoutId) and delete it.
Cleanup(tm, pending) ==
    IF tm.timeoutId # <<>>
    THEN [timer |-> [tm EXCEPT !.timeoutId = <<>>],
          timeouts |-> {entry \in pending : entry.id # tm.timeoutId[1]}]
    ELSE [timer |-> tm, timeouts |-> pending]

\* getRemainingTime(), lines 67-75.
GetRemainingTime(tm, t) ==
    IF ~IsRunning(tm) \/ tm.startTime = <<>> THEN 0
    ELSE LET elapsed == t - tm.startTime[1]
             remaining == tm.duration - elapsed
         IN  IF remaining > 0 THEN remaining ELSE 0

\* start() that begins a new countdown with the new callback when running.
TmStartRestarts(withCallback) ==
    /\ timerLog.starts < MaxStarts
    /\ LET k == timerLog.starts + 1
           cleared == Cleanup(timer, timeouts)
       IN  /\ timer' = [timer EXCEPT !.startTime = <<now>>,
                                     !.timeoutId = <<k>>,
                                     !.promise = <<k>>]
           /\ timeouts' = cleared.timeouts \cup
                  {[id |-> k, due |-> now + timer.duration,
                    callback |-> IF withCallback THEN <<k>> ELSE <<>>]}
           /\ timerLog' = [timerLog EXCEPT !.starts = k,
                                           !.passed = IF withCallback THEN @ \cup {k} ELSE @,
                                           !.returned = <<"start", <<k>>>>]
    /\ UNCHANGED <<circuitVars, windowVars, ctorVars, returned, flightVars>>

\* start(callback), lines 26-44; the k-th call passes callback k (or none)
\* and the promise it creates is promise k.
TmStart(withCallback) ==
    /\ timerLog.starts < MaxStarts
    /\ LET k == timerLog.starts + 1
       IN  IF IsRunning(timer)
           THEN /\ timerLog' = [timerLog EXCEPT !.starts = k,
                                                !.passed = IF withCallback THEN @ \cup {k} ELSE @,
                                                !.ignored = @ \cup {k},
                                                !.returned = <<"start", timer.promise>>]
                /\ UNCHANGED <<timer, timeouts>>
           ELSE /\ timer' = [timer EXCEPT !.startTime = <<now>>,
                                          !.timeoutId = <<k>>,
                                          !.promise = <<k>>]
                /\ timeouts' = timeouts \cup
                       {[id |-> k, due |-> now + timer.duration,
                         callback |-> IF withCallback THEN <<k>> ELSE <<>>]}
                /\ timerLog' = [timerLog EXCEPT !.starts = k,
                                                !.passed = IF withCallback THEN @ \cup {k} ELSE @,
                                                !.returned = <<"start", <<k>>>>]
    /\ UNCHANGED <<circuitVars, windowVars, ctorVars, returned, flightVars>>

\* The function passed to setTimeout, lines 34-40, run by the event loop at
\* or after the entry's due time.
TmExpire ==
    /\ \E entry \in timeouts :
           /\ entry.due <= now
           /\ LET cleaned == Cleanup(timer, timeouts \ {entry})
              IN  /\ timer' = cleaned.timer
                  /\ timeouts' = cleaned.timeouts
                  /\ timerLog' = [timerLog EXCEPT
                         !.invoked = @ \o entry.callback,
                         !.resolved = @ \cup {entry.id},
                         !.returned = <<"expired", entry.id>>]
    /\ UNCHANGED <<circuitVars, windowVars, ctorVars, returned, flightVars>>

\* stop() that forgets the timeout without clearing it.
TmStopForgets ==
    /\ IF ~IsRunning(timer)
       THEN /\ timerLog' = [timerLog EXCEPT !.returned = <<"stop", FALSE>>]
            /\ UNCHANGED <<timer, timeouts>>
       ELSE /\ timer' = [timer EXCEPT !.timeoutId = <<>>]
            /\ UNCHANGED timeouts
            /\ timerLog' = [timerLog EXCEPT
                   !.stopped = @ \cup {timer.timeoutId[1]},
                   !.returned = <<"stop", TRUE>>]
    /\ UNCHANGED <<circuitVars, windowVars, ctorVars, returned, flightVars>>

\* stop(), lines 50-61.
TmStop ==
    /\ IF ~IsRunning(timer)
       THEN /\ timerLog' = [timerLog EXCEPT !.returned = <<"stop", FALSE>>]
            /\ UNCHANGED <<timer, timeouts>>
       ELSE LET cleaned == Cleanup(timer, timeouts)
            IN  /\ timer' = cleaned.timer
                /\ timeouts' = cleaned.timeouts
                /\ timerLog' = [timerLog EXCEPT
                       !.stopped = @ \cup {timer.timeoutId[1]},
                       !.returned = <<"stop", TRUE>>]
    /\ UNCHANGED <<circuitVars, windowVars, ctorVars, returned, flightVars>>

\* reset(), lines 101-105: stop(), then startTime and promise are deleted.
TmReset ==
    /\ LET cleaned == Cleanup(timer, timeouts)
       IN  /\ timer' = [cleaned.timer EXCEPT !.startTime = <<>>, !.promise = <<>>]
           /\ timeouts' = cleaned.timeouts
           /\ timerLog' = [timerLog EXCEPT
                  !.stopped = @ \cup {timer.timeoutId[i] : i \in DOMAIN timer.timeoutId},
                  !.returned = <<"reset">>]
    /\ UNCHANGED <<circuitVars, windowVars, ctorVars, returned, flightVars>>

\* Time passes; a due timeout may fire late.
TmTick ==
    /\ now < MaxTime
    /\ now' = now + 1
    /\ UNCHANGED <<config, breakerVars, calls, resetsInARow, compVars>>

TmNext ==
    \/ \E withCallback \in BOOLEAN : TmStart(withCallback)
    \/ TmExpire
    \/ TmStop
    \/ TmReset
    \/ TmTick

SpecTimer == TmInit /\ [][TmNext]_vars

\* ------------------------------------------------------ the calls in flight
\* A breaker with any number of calls awaiting their race at once; a call in
\* flight is its admission time, and each handled outcome is noted.
Outcome(isFailure, responseTime, t) ==
    [isFailure |-> isFailure, responseTime |-> responseTime, at |-> t]

Without(seq, i) ==
    [j \in 1..(Len(seq) - 1) |-> IF j < i THEN seq[j] ELSE seq[j + 1]]

FlInit ==
    /\ InitBreaker
    /\ WindowIdle
    /\ CtorDone
    /\ returned = <<>>
    /\ TimerIdle
    /\ FlightIdle

\* execute(), lines 60-78.
FlExecute ==
    /\ totalCalls + Len(inFlight) < MaxTotalCalls
    /\ LET b == Breaker
           probe == b.currentState = OPEN /\ ShouldAttemptReset(b, config, now)
           denied == b.currentState = OPEN /\ ~ShouldAttemptReset(b, config, now)
           checked == IF probe THEN TransitionTo(b, HALF_OPEN, now) ELSE b
           threw == checked.invalidTransition /\ ~b.invalidTransition
       IN  /\ Install(checked)
           /\ inFlight' =
                  IF denied \/ threw THEN inFlight ELSE Append(inFlight, now)
    /\ resetsInARow' = 0
    /\ UNCHANGED <<config, now, calls, windowVars, ctorVars, returned, timerVars,
                   history>>

\* The operation of the i-th call in flight resolves: lines 79-81.
FlSucceeds(i) ==
    /\ i \in 1..Len(inFlight)
    /\ LET responseTime == now - inFlight[i]
       IN  /\ Install(OnSuccess(Breaker, responseTime, config, now))
           /\ history' = Append(history, Outcome(FALSE, responseTime, now))
    /\ inFlight' = Without(inFlight, i)
    /\ resetsInARow' = 0
    /\ UNCHANGED <<config, now, calls, windowVars, ctorVars, returned, timerVars>>

\* The operation of the i-th call in flight rejects: lines 82-84.
FlFails(i) ==
    /\ i \in 1..Len(inFlight)
    /\ LET responseTime == now - inFlight[i]
       IN  /\ Install(OnFailure(Breaker, responseTime, config, now))
           /\ history' = Append(history, Outcome(TRUE, responseTime, now))
    /\ inFlight' = Without(inFlight, i)
    /\ resetsInARow' = 0
    /\ UNCHANGED <<config, now, calls, windowVars, ctorVars, returned, timerVars>>

\* A timer that fires only once more than `timeout` has passed.
FlTimesOutLate(i) ==
    /\ i \in 1..Len(inFlight)
    /\ now - inFlight[i] > config.timeout
    /\ LET responseTime == now - inFlight[i]
       IN  /\ Install(OnFailure(Breaker, responseTime, config, now))
           /\ history' = Append(history, Outcome(TRUE, responseTime, now))
    /\ inFlight' = Without(inFlight, i)
    /\ resetsInARow' = 0
    /\ UNCHANGED <<config, now, calls, windowVars, ctorVars, returned, timerVars>>

\* The timer of the i-th call in flight fires, lines 140-151, and the race
\* is settled by its rejection: lines 82-84.
FlTimesOut(i) ==
    /\ i \in 1..Len(inFlight)
    /\ now - inFlight[i] >= config.timeout
    /\ LET responseTime == now - inFlight[i]
       IN  /\ Install(OnFailure(Breaker, responseTime, config, now))
           /\ history' = Append(history, Outcome(TRUE, responseTime, now))
    /\ inFlight' = Without(inFlight, i)
    /\ resetsInARow' = 0
    /\ UNCHANGED <<config, now, calls, windowVars, ctorVars, returned, timerVars>>

\* reset(), lines 111-116; the calls in flight go on.
FlReset ==
    /\ Install(BreakerReset(Breaker, now))
    /\ history' = <<>>
    /\ resetsInARow' = IF resetsInARow < 2 THEN resetsInARow + 1 ELSE 2
    /\ UNCHANGED <<config, now, calls, windowVars, ctorVars, returned, timerVars,
                   inFlight>>

\* Time passes, once every call whose timer is due has been settled.
FlTick ==
    /\ now < MaxTime
    /\ \A i \in 1..Len(inFlight) : now - inFlight[i] < config.timeout
    /\ now' = now + 1
    /\ resetsInARow' = 0
    /\ UNCHANGED <<config, breakerVars, calls, compVars>>

FlNext ==
    \/ FlExecute
    \/ \E i \in 1..MaxTotalCalls : FlSucceeds(i)
    \/ \E i \in 1..MaxTotalCalls : FlFails(i)
    \/ \E i \in 1..MaxTotalCalls : FlTimesOut(i)
    \/ FlReset
    \/ FlTick

SpecInFlight == FlInit /\ [][FlNext]_vars

\* One configuration.
FlOneInit ==
    /\ FlInit
    /\ config = SomeConfig

\* The event loop: the clock goes on, and a timer that is due fires.
SpecInFlightFair ==
    /\ FlOneInit
    /\ [][FlNext]_vars
    /\ WF_vars(FlTick)
    /\ WF_vars(\E i \in 1..MaxTotalCalls : FlTimesOut(i))

\* ------------------------------------------------- the collector on its own
\* A MetricsCollector fed directly with more calls than it retains response
\* times for.  The calls at the positions in VariedCalls are a success or a
\* failure with a short or a long response time; every other call is a
\* success with the usual one.
VariedCalls == {1, 2, 101, 102}
VariedTimes == {0, 3}
UsualTime == 1

CallsAt(position) ==
    IF position \in VariedCalls
    THEN BOOLEAN \X VariedTimes
    ELSE {<<TRUE, UsualTime>>}

McInit ==
    /\ BreakerIdle
    /\ WindowIdle
    /\ CtorDone
    /\ returned = <<>>
    /\ TimerIdle
    /\ FlightIdle

\* recordSuccess(responseTime), lines 28-38.
McSuccess(responseTime) ==
    /\ Len(history) < MaxRecorded
    /\ <<TRUE, responseTime>> \in CallsAt(Len(history) + 1)
    /\ Install(McRecordSuccess(Breaker, responseTime, config))
    /\ history' = Append(history, Outcome(FALSE, responseTime, now))
    /\ UNCHANGED <<config, now, calls, resetsInARow, windowVars, ctorVars,
                   returned, timerVars, inFlight>>

\* recordFailure(responseTime), lines 46-56.
McFailure(responseTime) ==
    /\ Len(history) < MaxRecorded
    /\ <<FALSE, responseTime>> \in CallsAt(Len(history) + 1)
    /\ Install(McRecordFailure(Breaker, responseTime, config))
    /\ history' = Append(history, Outcome(TRUE, responseTime, now))
    /\ UNCHANGED <<config, now, calls, resetsInARow, windowVars, ctorVars,
                   returned, timerVars, inFlight>>

\* reset(), lines 142-148.
McReset ==
    /\ Install(MetricsCollectorReset(Breaker))
    /\ history' = <<>>
    /\ UNCHANGED <<config, now, calls, resetsInARow, windowVars, ctorVars,
                   returned, timerVars, inFlight>>

McNext ==
    \/ \E responseTime \in VariedTimes \cup {UsualTime} : McSuccess(responseTime)
    \/ \E responseTime \in VariedTimes \cup {UsualTime} : McFailure(responseTime)
    \/ McReset

SpecMetricsCollector == McInit /\ [][McNext]_vars

\* ------------------------------------------------------------------ claims
\* The step is a call of execute() in slot c.
ExecuteCalled(c) ==
    /\ calls[c].pc \in {"idle", "late"}
    /\ calls'[c].pc \in {"pending", "done"}

\* The step settles the pending call in slot c.
Settled(c) ==
    /\ calls[c].pc = "pending"
    /\ calls'[c].pc = "done"

\* The circuit is OPEN and resetTimeout has not elapsed since lastFailureTime.
OpenAndWaiting ==
    /\ currentState = OPEN
    /\ lastFailureTime # <<>>
    /\ now - lastFailureTime[1] < config.resetTimeout

\* The circuit is OPEN and resetTimeout has elapsed since lastFailureTime.
OpenAndDue ==
    /\ currentState = OPEN
    /\ lastFailureTime # <<>>
    /\ now - lastFailureTime[1] >= config.resetTimeout

\* C1: execute() called while the state is OPEN and less than resetTimeout
\* has elapsed since lastFailureTime rejects with CircuitBreakerError, and
\* the operation is not invoked.
C1_DeniedBeforeResetTimeout ==
    [][\A c \in Calls :
          (ExecuteCalled(c) /\ OpenAndWaiting) =>
              /\ calls'[c].pc = "done"
              /\ calls'[c].result = <<"CircuitBreakerError">>
              /\ calls'[c].invocations = 0
              /\ calls'[c].operation = "none"]_vars

C1_Witness ==
    \E c \in Calls :
        /\ calls[c].pc = "done"
        /\ calls[c].result = <<"CircuitBreakerError">>
        /\ OpenAndWaiting

\* C2: execute() called while the state is OPEN and resetTimeout has elapsed
\* moves the state to HALF_OPEN before it invokes the operation, and the
\* operation is invoked exactly once for that call.
C2_ProbeAdmittedOnce ==
    [][\A c \in Calls :
          /\ (ExecuteCalled(c) /\ OpenAndDue) =>
                 /\ currentState' = HALF_OPEN
                 /\ calls'[c].pc = "pending"
                 /\ calls'[c].invokedIn = HALF_OPEN
                 /\ calls'[c].invocations = 1
          /\ (calls[c].admission = "probe" /\ calls'[c].admission = "probe") =>
                 calls'[c].invocations = calls[c].invocations]_vars

C2_Witness ==
    \E c \in Calls :
        /\ calls[c].pc = "pending"
        /\ calls[c].admission = "probe"
        /\ calls[c].invokedIn = HALF_OPEN
        /\ calls[c].startTime = now
        /\ currentState = HALF_OPEN

\* C3: when a call admitted by the OPEN -> HALF_OPEN step succeeds while the
\* state is still HALF_OPEN, the state is CLOSED once the outcome is handled
\* and execute() resolves with the operation's value.
C3_ProbeSuccessCloses ==
    [][\A c \in Calls :
          (/\ Settled(c)
           /\ calls[c].admission = "probe"
           /\ currentState = HALF_OPEN
           /\ calls'[c].operation = "resolved") =>
              /\ currentState' = CLOSED
              /\ calls'[c].result = <<"resolved", calls'[c].value>>
              /\ calls'[c].value \in Values]_vars

C3_Witness ==
    \E c \in Calls :
        /\ calls[c].pc = "done"
        /\ calls[c].admission = "probe"
        /\ calls[c].result = <<"resolved", "b">>
        /\ currentState = CLOSED
        /\ lastStateChange = now

\* The settled call in slot c failed: its operation rejected or its timer fired.
Failed(c) ==
    /\ Settled(c)
    /\ calls'[c].result[1] \in {"OperationError", "TimeoutError"}

\* C4: whenever a call fails (operation error or timeout) while the state is
\* HALF_OPEN, the state is OPEN once the failure is handled and
\* lastFailureTime is the time of handling.
C4_FailureInHalfOpenOpens ==
    [][\A c \in Calls :
          (Failed(c) /\ currentState = HALF_OPEN) =>
              /\ currentState' = OPEN
              /\ lastFailureTime' = <<now>>]_vars

\* C5: the state is never OPEN unless at least minimumThroughput outcomes
\* have been recorded in the failure detector's window since construction or
\* the last reset().
C5_NeverOpenBelowMinimumThroughput ==
    currentState = OPEN =>
        /\ Len(fdRecords) >= config.minimumThroughput
        /\ totalCalls >= config.minimumThroughput

C5_Witness ==
    /\ currentState = OPEN
    /\ config.failureThreshold = 1
    /\ config.minimumThroughput = 2
    /\ totalCalls = 2
    /\ failedCalls = 2

\* Only failures have been recorded since construction or the last reset().
OnlyFailures ==
    /\ successfulCalls = 0
    /\ totalCalls = failedCalls

\* The configurations of C6: failureRateThreshold = 1, minimumThroughput <=
\* failureThreshold.
RateOneConfig ==
    /\ config.failureRateThreshold.num = config.failureRateThreshold.den
    /\ config.minimumThroughput <= config.failureThreshold

\* C6 as stated: with failureThreshold = k, failureRateThreshold = 1 and
\* minimumThroughput <= k, a breaker that has only seen failures is CLOSED
\* after each of the first k-1 failures and OPEN after the k-th.
C6_OpensAtKthFailure ==
    [][\A c \in Calls :
          (Failed(c) /\ RateOneConfig /\ OnlyFailures) =>
              /\ failedCalls' < config.failureThreshold => currentState' = CLOSED
              /\ failedCalls' = config.failureThreshold => currentState' = OPEN]_vars

\* C6 amended: under the same configurations the breaker is CLOSED after
\* each of the first minimumThroughput - 1 failures and OPEN after failure
\* number minimumThroughput, at which the failure rate 1 reaches the rate
\* threshold.
C6_OpensAtMinimumThroughput ==
    [][\A c \in Calls :
          (Failed(c) /\ RateOneConfig /\ OnlyFailures) =>
              /\ failedCalls' < config.minimumThroughput => currentState' = CLOSED
              /\ failedCalls' = config.minimumThroughput => currentState' = OPEN]_vars

C6_Witness ==
    /\ RateOneConfig
    /\ config.failureThreshold = 2
    /\ config.minimumThroughput = 1
    /\ OnlyFailures
    /\ failedCalls = 1
    /\ currentState = OPEN
    /\ \E c \in Calls : calls[c].pc = "done" /\ calls[c].result[1] = "OperationError"

\* The timer of the pending call in slot c fired before its operation settled.
TimedOut(c) ==
    /\ Settled(c)
    /\ calls[c].timer = "armed"
    /\ calls'[c].timer = "fired"

\* The operation of the call in slot c settles after its timer won the race.
CompletedLate(c) ==
    /\ calls[c].pc = "late"
    /\ calls[c].operation = "running"
    /\ calls'[c].pc = "idle"

\* The window after one more record, written out.
Appended(old, record) ==
    IF Len(old) < WindowSize(config) THEN Append(old, record)
    ELSE Append(Tail(old), record)

\* C7: when the timer fires before the operation settles, execute() rejects
\* with TimeoutError and exactly one failure is recorded (totalCalls and
\* failedCalls grow by 1, one failure record enters each window); when the
\* operation settles later, no breaker state changes.
C7_TimeoutRecordedOnce ==
    [][\A c \in Calls :
          /\ TimedOut(c) =>
                 /\ calls'[c].result = <<"TimeoutError">>
                 /\ totalCalls' = totalCalls + 1
                 /\ failedCalls' = failedCalls + 1
                 /\ successfulCalls' = successfulCalls
                 /\ fdRecords' = Appended(fdRecords, [isFailure |-> TRUE])
                 /\ mcRecords' = Appended(mcRecords, [isSuccess |-> FALSE])
          /\ CompletedLate(c) => UNCHANGED breakerVars]_vars

C7_Witness ==
    \E c \in Calls :
        /\ calls[c].pc = "late"
        /\ calls[c].operation = "running"
        /\ calls[c].timer = "fired"
        /\ failedCalls = 1
        /\ totalCalls = 1
        /\ now > calls[c].startTime + config.timeout

\* C8: StateManager.transitionTo never throws when called from execute(),
\* onSuccess() or onFailure(), in any interleaving of calls and reset().
C8_NoInvalidTransition ==
    /\ ~invalidTransition
    /\ \A c \in Calls : calls[c].result # <<"InvalidTransition">>

\* A failure of a call admitted in CLOSED that was handled after the circuit
\* had opened (minimumThroughput = 1: the first failure opened it).
C8_Witness ==
    \E c \in Calls :
        /\ calls[c].pc = "done"
        /\ calls[c].admission = "closed"
        /\ calls[c].result[1] = "OperationError"
        /\ config.minimumThroughput = 1
        /\ OnlyFailures
        /\ failedCalls >= 2
        /\ currentState = OPEN

\* C9: right after reset() the state is CLOSED, the three counters and the
\* failure rate are 0, both windows are empty, the consecutive-failure
\* counter is 0, lastFailureTime is cleared and nextAttempt is absent.
C9_ResetRestoresInitialState ==
    resetsInARow > 0 =>
        /\ currentState = CLOSED
        /\ totalCalls = 0
        /\ successfulCalls = 0
        /\ failedCalls = 0
        /\ CalculateFailureRate(Breaker).num = 0
        /\ fdRecords = <<>>
        /\ mcRecords = <<>>
        /\ consecutiveFailures = 0
        /\ lastFailureTime = <<>>
        /\ GetNextAttemptTime(Breaker, config) = <<>>

\* reset() with a probe and another call in flight.
C9_Witness ==
    /\ resetsInARow = 1
    /\ \E c \in Calls : calls[c].pc = "pending" /\ calls[c].admission = "probe"
    /\ \E c \in Calls : calls[c].pc = "pending" /\ calls[c].admission = "half_open"

\* C10: a second reset() right after a first leaves the circuit state, the
\* counters, both windows, the consecutive-failure counter and
\* lastFailureTime as the first left them.
C10_ResetIdempotent ==
    [][(resetsInARow > 0 /\ resetsInARow' > 0) =>
          UNCHANGED <<currentState, totalCalls, successfulCalls, failedCalls,
                      fdRecords, mcRecords, responseTimes, consecutiveFailures,
                      lastFailureTime>>]_vars

C10_Witness ==
    /\ resetsInARow = 2
    /\ lastStateChange = now
    /\ now > 0

\* execute() in slot c was denied in this step.
Denied(c) ==
    /\ ExecuteCalled(c)
    /\ calls'[c].result = <<"CircuitBreakerError">>

\* C11: a call rejected with CircuitBreakerError leaves the circuit state,
\* lastStateChange, lastFailureTime, the three lifetime counters, both
\* windows and the consecutive-failure counter as they were.
C11_DeniedCallChangesNothing ==
    [][\A c \in Calls : Denied(c) => UNCHANGED breakerVars]_vars

C11_Witness ==
    \E c \in Calls :
        /\ calls[c].pc = "done"
        /\ calls[c].admission = "denied"
        /\ currentState = OPEN
        /\ lastStateChange < now
        /\ lastFailureTime # <<now>>
        /\ totalCalls = 1

\* C12: a call of execute() invokes the operation once if it is admitted
\* and not at all if it is denied, and the count never changes afterwards
\* (no retry after a failure or a timeout).
C12_OperationInvokedAtMostOnce ==
    \A c \in Calls :
        /\ calls[c].invocations <= 1
        /\ calls[c].pc = "pending" => calls[c].invocations = 1
        /\ calls[c].pc = "done" =>
               calls[c].invocations = IF calls[c].admission = "denied" THEN 0 ELSE 1

C12_Witness ==
    \E c \in Calls :
        /\ calls[c].pc = "done"
        /\ calls[c].result = <<"TimeoutError">>
        /\ calls[c].invocations = 1
        /\ currentState = OPEN

\* C13: an admitted call whose operation rejects settles with the
\* operation's own error, and one whose timer fires first with the
\* TimeoutError, whatever the circuit state and whether or not handling the
\* failure opens the circuit.
C13_FailureReachesCaller ==
    [][\A c \in Calls :
          /\ (Settled(c) /\ calls'[c].operation = "rejected") =>
                 /\ calls'[c].value \in Errors
                 /\ calls'[c].result = <<"OperationError", calls'[c].value>>
          /\ TimedOut(c) => calls'[c].result = <<"TimeoutError">>]_vars

\* A failure whose handling opened the circuit.
C13_Witness ==
    \E c \in Calls :
        /\ calls[c].pc = "done"
        /\ calls[c].result = <<"OperationError", "object">>
        /\ calls[c].invokedIn = CLOSED
        /\ currentState = OPEN
        /\ lastStateChange = now
        /\ failedCalls = config.minimumThroughput

\* A call admitted by the OPEN -> HALF_OPEN step is awaiting in another slot.
ProbePending(c) ==
    \E d \in Calls \ {c} :
        /\ calls[d].pc = "pending"
        /\ calls[d].admission = "probe"

\* C14: once a call has been admitted by the OPEN -> HALF_OPEN
\* step, no other call of execute() has its operation invoked until that
\* probe's outcome has been handled.
C14_SingleProbe ==
    [][\A c \in Calls :
          (ExecuteCalled(c) /\ ProbePending(c)) => calls'[c].invocations = 0]_vars

\* The number of failure records in a window, counted by position.
FailuresIn(records) ==
    Cardinality({i \in 1..Len(records) : records[i].isFailure})

\* The condition of C15 on a window: enough records, and the failure count
\* or the failure fraction at or above its threshold.
ThresholdReached(records, cfg) ==
    /\ Len(records) >= cfg.minimumThroughput
    /\ \/ FailuresIn(records) >= cfg.failureThreshold
       \/ FailuresIn(records) * cfg.failureRateThreshold.den
              >= cfg.failureRateThreshold.num * Len(records)

LegalPairs ==
    {<<CLOSED, OPEN>>, <<OPEN, HALF_OPEN>>, <<HALF_OPEN, CLOSED>>,
     <<HALF_OPEN, OPEN>>}

\* C16: transitionTo(target) succeeds (the state becomes target and
\* lastStateChange the time of the call) only when target is the current
\* state or (current, target) is CLOSED->OPEN, OPEN->HALF_OPEN,
\* HALF_OPEN->CLOSED or HALF_OPEN->OPEN; for CLOSED->HALF_OPEN and
\* OPEN->CLOSED it throws and leaves state and lastStateChange unchanged.
C16_TransitionToValidates ==
    [][\A target \in CircuitState :
          SmTransitionTo(target) =>
              IF target = currentState \/ <<currentState, target>> \in LegalPairs
              THEN /\ ~invalidTransition'
                   /\ currentState' = target
                   /\ lastStateChange' = now
              ELSE /\ invalidTransition'
                   /\ <<currentState, target>>
                          \in {<<CLOSED, HALF_OPEN>>, <<OPEN, CLOSED>>}
                   /\ currentState' = currentState
                   /\ lastStateChange' = lastStateChange]_vars

\* OPEN -> CLOSED was requested some time after the circuit opened, and threw.
C16_Witness ==
    /\ invalidTransition
    /\ currentState = OPEN
    /\ lastStateChange < now
    /\ totalCalls = 0

\* C17: in every reachable state getMetrics().nextAttempt is present
\* exactly when the state is OPEN, and when present it is
\* lastFailureTime + resetTimeout.
C17_NextAttemptOnlyWhenOpen ==
    LET metrics == GetMetrics(Breaker, config)
    IN  /\ "nextAttempt" \in DOMAIN metrics <=> currentState = OPEN
        /\ "nextAttempt" \in DOMAIN metrics =>
               /\ lastFailureTime # <<>>
               /\ metrics.nextAttempt
                      = Date(lastFailureTime[1] + config.resetTimeout)

\* The circuit has been OPEN for a while and the snapshot carries the member.
C17_Witness ==
    /\ currentState = OPEN
    /\ lastFailureTime # <<>>
    /\ lastFailureTime[1] < now
    /\ "nextAttempt" \in DOMAIN GetMetrics(Breaker, config)
    /\ GetMetrics(Breaker, config).nextAttempt.ms > now

\* The lifetime counters add up and the reported failureRate is
\* failedCalls / totalCalls, or 0 before the first outcome.
CountersConsistent ==
    LET rate == GetMetrics(Breaker, config).failureRate
    IN  /\ totalCalls = successfulCalls + failedCalls
        /\ rate.den > 0
        /\ IF totalCalls = 0 THEN rate.num = 0
           ELSE rate.num * totalCalls = failedCalls * rate.den

\* C18: totalCalls = successfulCalls + failedCalls and failureRate =
\* failedCalls / totalCalls (0 when totalCalls = 0) before and after every
\* step, and no step other than reset() lowers a lifetime counter, window
\* eviction included.
C18_LifetimeCounters ==
    [][/\ CountersConsistent
       /\ CountersConsistent'
       /\ resetsInARow' = 0 =>
              /\ totalCalls' >= totalCalls
              /\ successfulCalls' >= successfulCalls
              /\ failedCalls' >= failedCalls]_vars

\* The window has evicted a record and both kinds of outcome were counted.
C18_Witness ==
    /\ Len(mcRecords) = WindowSize(config)
    /\ totalCalls > WindowSize(config)
    /\ successfulCalls > 0
    /\ failedCalls > 0
    /\ GetMetrics(Breaker, config).failureRate
           = [num |-> failedCalls, den |-> totalCalls]

\* The smaller of two numbers.
Min(a, b) == IF a <= b THEN a ELSE b

\* The number of failure records the collector's window holds.
WindowFailures ==
    Cardinality({i \in 1..Len(mcRecords) : ~mcRecords[i].isSuccess})

\* C19: getWindowStats() reports currentCount = min(outcomes recorded since
\* the last reset, window capacity) and failureRate = the fraction of
\* failures among the records the window still holds (0 for an empty
\* window), whatever the lifetime failureRate is.
C19_WindowStats ==
    LET stats == GetWindowStats(Breaker, config)
    IN  /\ stats.windowSize = 2 * config.minimumThroughput
        /\ stats.currentCount = Min(totalCalls, stats.windowSize)
        /\ stats.failureRate.den > 0
        /\ IF mcRecords = <<>> THEN stats.failureRate.num = 0
           ELSE stats.failureRate.num * Len(mcRecords)
                    = WindowFailures * stats.failureRate.den

\* After an eviction the window's rate differs from the lifetime rate.
C19_Witness ==
    LET stats == GetWindowStats(Breaker, config)
        lifetime == GetMetrics(Breaker, config).failureRate
    IN  /\ totalCalls > stats.windowSize
        /\ stats.currentCount = stats.windowSize
        /\ stats.failureRate.num * lifetime.den
               # lifetime.num * stats.failureRate.den

\* The export made in the current state with the arguments getMetrics()
\* passes to the collector, parsed back.
ParsedExport ==
    JsonParse(ExportJSON(Breaker, currentState, lastStateChange,
                         GetNextAttemptTime(Breaker, config), now))

LastOf(seq, count) == SubSeq(seq, Len(seq) - count + 1, Len(seq))

\* C21: for a window of capacity c, after any sequence of add() and
\* clear(): size() <= c and the window holds, oldest first, exactly the
\* last min(n, c) of the n records added since the last clear().
C21_WindowKeepsLatest ==
    /\ Len(swRecords) <= swMaxSize
    /\ swRecords = LastOf(swAdded, Min(Len(swAdded), swMaxSize))

\* Two records have been evicted from a window that holds different
\* records.
C21_Witness ==
    /\ swMaxSize = 2
    /\ Len(swAdded) = swMaxSize + 2
    /\ swAdded[1] # swAdded[3]
    /\ swRecords = <<swAdded[3], swAdded[4]>>
    /\ swRecords[1] # swRecords[2]

\* The rejection conditions of C22 on a merged configuration.
Rejected(cfg) ==
    \/ cfg.failureThreshold <= 0
    \/ cfg.failureRateThreshold.num < 0
    \/ cfg.failureRateThreshold.num > cfg.failureRateThreshold.den
    \/ cfg.timeout <= 0
    \/ cfg.resetTimeout <= 0
    \/ cfg.minimumThroughput <= 0

\* C22: constructing a breaker throws exactly when, after the options are
\* merged with the defaults, failureThreshold <= 0, failureRateThreshold
\* < 0 or > 1, timeout <= 0, resetTimeout <= 0 or minimumThroughput <= 0;
\* a constructed breaker holds the merged configuration.
C22_ConstructorValidates ==
    ctorOutcome # "none" =>
        LET merged == MergeOptions(ctorOptions)
        IN  /\ ctorOutcome = "threw" <=> Rejected(merged)
            /\ ctorOutcome = "constructed" => config = merged

\* The boundary values are accepted.
C22_Witness ==
    /\ ctorOutcome = "constructed"
    /\ ctorOptions.failureThreshold = <<1>>
    /\ ctorOptions.failureRateThreshold = <<[num |-> 0, den |-> 1]>>
    /\ ctorOptions.timeout = <<1>>
    /\ ctorOptions.resetTimeout = <<1>>
    /\ ctorOptions.minimumThroughput = <<1>>
    /\ config.failureRateThreshold.num = 0

\* The step is a call of the observer named kind.
Observed(kind) ==
    /\ Len(returned') = Len(returned) + 1
    /\ returned'[Len(returned')].kind = kind

\* C23: no call of execute(), reset(), getMetrics() or getConfig(), and no
\* write by the caller into a configuration it was handed, changes the
\* breaker's configuration; getConfig() returns a new object whose contents
\* are the configuration, whatever was done to earlier results.
C23_ConfigFixed ==
    [][/\ config' = config
       /\ Observed("getConfig") =>
              LET result == returned'[Len(returned')]
              IN  /\ result.value = config
                  /\ result.ref # ThisConfig
                  /\ \A i \in 1..Len(returned) : returned[i].ref # result.ref]_vars

\* After some calls, a first result was written to and getConfig() was
\* called again.
C23_Witness ==
    /\ Len(returned) = 2
    /\ returned[1].kind = "getConfig"
    /\ returned[1].value.failureThreshold = 10
    /\ returned[2].kind = "getConfig"
    /\ returned[2].value = config
    /\ config.failureThreshold # 10
    /\ totalCalls > 0

\* C24: a call of getState(), getMetrics(), getConfig(), getWindowStats()
\* or exportJSON() changes nothing of the breaker, in any state, and two
\* getMetrics() calls with nothing in between return objects that are
\* equal and not the same object.
C24_ObserversArePure ==
    [][/\ (\E kind \in {"getState", "getMetrics", "getConfig",
                         "getWindowStats", "exportJSON"} : Observed(kind))
              => UNCHANGED circuitVars
       /\ (Len(returned') = 2 /\ returned'[1].kind = "getMetrics") =>
              /\ returned'[2].kind = "getMetrics"
              /\ returned'[1].value = returned'[2].value
              /\ returned'[1].ref # returned'[2].ref]_vars

\* Two snapshots taken one after the other while the circuit is OPEN.
C24_Witness ==
    /\ Len(returned) = 2
    /\ returned[1].kind = "getMetrics"
    /\ returned[2].kind = "getMetrics"
    /\ currentState = OPEN
    /\ returned[2].value.state = OPEN
    /\ returned[2].value.totalCalls = totalCalls
    /\ "nextAttempt" \in DOMAIN returned[2].value

\* The operation of the call in slot c rejected (or threw) in this step.
Rejects(c) ==
    /\ Settled(c)
    /\ calls'[c].operation = "rejected"

\* C25: every rejection or throw of the operation, whatever the value (an
\* Error, another object, null, undefined), is recorded as exactly one
\* failure by the collector and by the evaluator, and the circuit opens
\* on it whenever the evaluator's thresholds are reached.
C25_EveryErrorCounts ==
    [][\A c \in Calls :
          Rejects(c) =>
              /\ totalCalls' = totalCalls + 1
              /\ failedCalls' = failedCalls + 1
              /\ successfulCalls' = successfulCalls
              /\ consecutiveFailures' = consecutiveFailures + 1
              /\ fdRecords' = WindowAdd(fdRecords, FailureRecord(TRUE),
                                        WindowSize(config))
              /\ mcRecords' = WindowAdd(mcRecords, CallRecord(FALSE),
                                        WindowSize(config))
              /\ ThresholdReached(fdRecords', config) => currentState' = OPEN]_vars

\* A rejection with null opened the circuit.
C25_Witness ==
    \E c \in Calls :
        /\ calls[c].pc = "done"
        /\ calls[c].operation = "rejected"
        /\ calls[c].value = "null"
        /\ calls[c].invokedIn = CLOSED
        /\ currentState = OPEN
        /\ lastStateChange = now
        /\ failedCalls = 2

\* The step is a call of start().
StartCalled == timerLog'.starts = timerLog.starts + 1

\* The step is the firing of a timeout.
Expired == timerLog'.resolved # timerLog.resolved

\* No callback has run twice.
InvokedOnce ==
    \A i, j \in 1..Len(timerLog.invoked) :
        timerLog.invoked[i] = timerLog.invoked[j] => i = j

\* C26: start() on a running timer returns the promise of the start that
\* began the run, leaves the countdown as it is and does not register the
\* new callback; the callback of the first start runs once, when the
\* timeout fires, no earlier than startTime + duration, and isRunning() is
\* false afterwards.
C26_StartWhileRunning ==
    [][/\ (StartCalled /\ IsRunning(timer)) =>
              /\ timerLog'.returned = <<"start", timer.promise>>
              /\ timer' = timer
              /\ timeouts' = timeouts
       /\ Expired =>
              /\ IsRunning(timer)
              /\ LET entry == CHOOSE e \in timeouts : e.id = timer.timeoutId[1]
                 IN  /\ timerLog'.invoked = timerLog.invoked \o entry.callback
                     /\ timerLog'.resolved = timerLog.resolved \cup {timer.promise[1]}
                     /\ timer.startTime[1] + timer.duration <= now
              /\ ~IsRunning(timer')
       /\ InvokedOnce'
       /\ \A i \in 1..Len(timerLog'.invoked) :
              timerLog'.invoked[i] \notin timerLog'.ignored]_vars

\* The second start() passed a callback while the first run was under way;
\* the run has expired and only the first callback ran.
C26_Witness ==
    /\ 2 \in timerLog.ignored
    /\ 2 \in timerLog.passed
    /\ timerLog.invoked = <<1>>
    /\ timerLog.resolved = {1}
    /\ ~IsRunning(timer)
    /\ timeouts = {}

\* The step is a call of stop().
StopCalled ==
    /\ timerLog' # timerLog
    /\ timerLog'.returned[1] = "stop"

\* C27: stop() returns true exactly when the timer was running; the
\* callback of a run that was stopped is never invoked, and from the stop
\* until the next start() isRunning() is false and getRemainingTime() is 0.
C27_StopCancels ==
    [][/\ StopCalled =>
              /\ timerLog'.returned[2] = IsRunning(timer)
              /\ ~IsRunning(timer')
              /\ \A entry \in timeouts' : <<entry.id>> # timer.timeoutId
       /\ ~IsRunning(timer') => GetRemainingTime(timer', now') = 0
       /\ (~IsRunning(timer) /\ IsRunning(timer')) => StartCalled
       /\ \A i \in 1..Len(timerLog'.invoked) :
              timerLog'.invoked[i] \notin timerLog'.stopped]_vars

\* The first run had a callback and was stopped; its due time has passed
\* and the callback has not run.
C27_Witness ==
    /\ timerLog.returned = <<"stop", TRUE>>
    /\ 1 \in timerLog.stopped
    /\ 1 \in timerLog.passed
    /\ timerLog.invoked = <<>>
    /\ timer.startTime # <<>>
    /\ timer.startTime[1] + timer.duration < now
    /\ GetRemainingTime(timer, now) = 0

\* The call in slot c resolved in this step and its success was handled.
Succeeded(c) ==
    /\ Settled(c)
    /\ calls'[c].result[1] = "resolved"

\* C28: the success of a call that was admitted while the circuit was
\* CLOSED and that is handled while the state is HALF_OPEN leaves the
\* state HALF_OPEN; only a probe's success closes the circuit.
C28_StaleSuccessDoesNotClose ==
    [][\A c \in Calls :
          (Succeeded(c) /\ calls[c].admission = "closed"
             /\ currentState = HALF_OPEN)
              => currentState' = HALF_OPEN]_vars

\* The step is a call of reset().
ResetCalled == resetsInARow' > 0

\* C29: lastFailureTime is the handling time of the most recent failed or
\* timed-out call since construction or the last reset(): every handled
\* failure sets it to the current time, also while the circuit is OPEN,
\* reset() clears it and no other step changes it; while the circuit is
\* OPEN no call is admitted before resetTimeout has passed since it.
C29_LastFailureTimeTracksFailures ==
    [][/\ \A c \in Calls : Failed(c) => lastFailureTime' = <<now>>
       /\ ResetCalled => lastFailureTime' = <<>>
       /\ (~ResetCalled /\ ~\E c \in Calls : Failed(c))
              => lastFailureTime' = lastFailureTime
       /\ \A c \in Calls :
              (ExecuteCalled(c) /\ currentState = OPEN
                 /\ lastFailureTime # <<>>
                 /\ now - lastFailureTime[1] < config.resetTimeout)
                  => calls'[c].result = <<"CircuitBreakerError">>]_vars

\* The first failure opened the circuit at once; a call admitted before it
\* failed later, while the circuit was OPEN, and moved lastFailureTime.
C29_Witness ==
    \E c \in Calls :
        /\ config.minimumThroughput = 1
        /\ calls[c].pc = "done"
        /\ calls[c].result[1] \in {"OperationError", "TimeoutError"}
        /\ calls[c].invokedIn = CLOSED
        /\ failedCalls = 2
        /\ totalCalls = 2
        /\ currentState = OPEN
        /\ now > 0
        /\ lastFailureTime = <<now>>

\* C30: while the state is OPEN, handling the outcome of an in-flight call
\* (success, failure or timeout) leaves it OPEN; the state leaves OPEN only
\* by reset() or by the admission of a new call once resetTimeout has
\* passed since lastFailureTime.
C30_OutcomesKeepOpen ==
    [][/\ \A c \in Calls :
              (Settled(c) /\ currentState = OPEN) => currentState' = OPEN
       /\ (currentState = OPEN /\ currentState' # OPEN) =>
              \/ ResetCalled /\ currentState' = CLOSED
              \/ \E c \in Calls :
                     /\ ExecuteCalled(c)
                     /\ calls'[c].admission = "probe"
                     /\ currentState' = HALF_OPEN
                     /\ lastFailureTime # <<>>
                     /\ now - lastFailureTime[1] >= config.resetTimeout]_vars

\* A call admitted before the circuit opened resolved while it was OPEN.
C30_Witness ==
    \E c \in Calls :
        /\ calls[c].pc = "done"
        /\ calls[c].result[1] = "resolved"
        /\ calls[c].invokedIn = CLOSED
        /\ currentState = OPEN
        /\ successfulCalls = 1
        /\ lastStateChange < now

\* C31: in every state reached through execute(), reset() and the getters,
\* state = OPEN implies that lastFailureTime is set; so whenever execute()
\* consults shouldAttemptReset(), its branch for an undefined lastFailureTime
\* is not the one taken.
C31_OpenHasFailureTime ==
    currentState = OPEN => lastFailureTime # <<>>

\* The failure of a call has just opened the circuit.
C31_Witness ==
    /\ currentState = OPEN
    /\ lastFailureTime = <<now>>
    /\ lastStateChange = now
    /\ now > 0
    /\ totalCalls = 1
    /\ failedCalls = 1
    /\ \E c \in Calls : calls[c].pc = "done" /\ calls[c].startTime > 0

\* The timer of slot c fires after the race was settled by the operation.
TimerFiresLate(c) ==
    /\ calls[c].pc = "late"
    /\ calls[c].timer = "armed"
    /\ calls'[c] = IdleCall

C35_ClosingClearsNothing ==
    [][\A c \in Calls :
           (Succeeded(c) /\ currentState = HALF_OPEN) =>
               /\ currentState' = CLOSED
               /\ fdRecords' =
                      Appended(fdRecords, FailureRecord(FALSE))
               /\ Len(fdRecords) < WindowSize(config) =>
                      FailuresIn(fdRecords') = FailuresIn(fdRecords)
               /\ totalCalls' = totalCalls + 1
               /\ successfulCalls' = successfulCalls + 1
               /\ failedCalls' = failedCalls
               /\ lastFailureTime' = lastFailureTime]_vars

\* The probe has just closed the circuit and the window still holds the
\* failure that had opened it.
C35_Witness ==
    \E c \in Calls :
        /\ calls[c].pc = "done"
        /\ calls[c].admission = "probe"
        /\ calls[c].result[1] = "resolved"
        /\ currentState = CLOSED
        /\ lastStateChange = now
        /\ FailuresIn(fdRecords) >= 1
        /\ failedCalls >= 1
        /\ lastFailureTime # <<>>

\* The step handles the failure of a call.
FailureHandled ==
    /\ Len(history') = Len(history) + 1
    /\ history'[Len(history')].isFailure

\* transitionTo(s) called at the present time while the state is s.
SameState(s) ==
    TransitionTo([Breaker EXCEPT !.currentState = s], s, now)

\* C37: transitionTo(s) while the state is s does not throw, leaves the
\* state s and sets lastStateChange to the time of the call; so a failure
\* handled while the circuit is OPEN leaves the state OPEN and moves
\* lastStateChange to the time of handling.
C37_SameStateRefreshes ==
    [][/\ \A s \in CircuitState :
              /\ SameState(s).invalidTransition = invalidTransition
              /\ SameState(s).currentState = s
              /\ SameState(s).lastStateChange = now
       /\ (FailureHandled /\ currentState = OPEN) =>
              /\ currentState' = OPEN
              /\ lastStateChange' = now]_vars

\* C37, amended: transitionTo(s) while the state is s does not throw, leaves
\* the state s and sets lastStateChange to the time of the call; a failure
\* handled while the circuit is OPEN leaves the state OPEN, and moves
\* lastStateChange to the time of handling exactly when shouldOpenCircuit()
\* holds once the failure is in the window.
C37_SameStateRefreshesOnThreshold ==
    [][/\ \A s \in CircuitState :
              /\ SameState(s).invalidTransition = invalidTransition
              /\ SameState(s).currentState = s
              /\ SameState(s).lastStateChange = now
       /\ (FailureHandled /\ currentState = OPEN) =>
              /\ currentState' = OPEN
              /\ lastStateChange' =
                     IF ShouldOpenCircuit(fdRecords', config)
                     THEN now ELSE lastStateChange]_vars

\* The first failure opened the circuit at time 0; the failure of another
\* call was handled at time 1, before any probe, and moved lastStateChange.
C37_Witness ==
    /\ config.minimumThroughput = 1
    /\ Len(history) = 2
    /\ history[1].isFailure /\ history[1].at = 0
    /\ history[2].isFailure /\ history[2].at = 1
    /\ now = 1
    /\ currentState = OPEN
    /\ lastStateChange = 1

\* The evaluator's records of a sequence of handled outcomes.
Recorded(outcomes) ==
    [i \in 1..Len(outcomes) |-> FailureRecord(outcomes[i].isFailure)]

\* C36: the evaluator's window never holds more than 2 x minimumThroughput
\* records and is exactly the most recent min(n, 2 x minimumThroughput) of
\* the n outcomes handled since construction or the last reset(); so
\* shouldOpenCircuit() is the threshold condition on those outcomes alone.
C36_WindowOfLatestOutcomes ==
    LET latest == LastOf(history, Min(Len(history), 2 * config.minimumThroughput))
    IN  /\ Len(fdRecords) <= 2 * config.minimumThroughput
        /\ fdRecords = Recorded(latest)
        /\ ShouldOpenCircuit(fdRecords, config)
               <=> ThresholdReached(Recorded(latest), config)

\* failureThreshold failures have been handled since the last reset(), one
\* of them has left the full window, and shouldOpenCircuit() is false.
C36_Witness ==
    /\ FailuresIn(Recorded(history)) >= config.failureThreshold
    /\ Len(history) > Len(fdRecords)
    /\ FailuresIn(fdRecords) < config.failureThreshold
    /\ ~ShouldOpenCircuit(fdRecords, config)

\* The number of failures at the end of a sequence of outcomes.
TrailingFailures(outcomes) ==
    LET successes == {i \in 1..Len(outcomes) : ~outcomes[i].isFailure}
        last == IF successes = {} THEN 0
                ELSE CHOOSE i \in successes : \A j \in successes : j <= i
    IN  Len(outcomes) - last

\* C38: getConsecutiveFailures() is the number of failures handled since the
\* most recent success or reset(), 0 right after either; it may exceed the
\* window's capacity, and shouldOpenCircuit() is decided by the window
\* alone, whatever the counter's value.
C38_ConsecutiveFailures ==
    /\ consecutiveFailures = TrailingFailures(history)
    /\ (history = <<>> \/ ~history[Len(history)].isFailure) =>
           consecutiveFailures = 0
    /\ ShouldOpenCircuit(fdRecords, config) <=> ThresholdReached(fdRecords, config)
    /\ (consecutiveFailures >= config.failureThreshold
           /\ Len(fdRecords) < config.minimumThroughput) =>
               ~ShouldOpenCircuit(fdRecords, config)

\* More failures in a row than the window can hold.
C38_Witness ==
    /\ consecutiveFailures > WindowSize(config)
    /\ consecutiveFailures = Len(history)
    /\ Len(fdRecords) = WindowSize(config)

\* The response times of a sequence of handled outcomes.
TimesOf(outcomes) ==
    [i \in 1..Len(outcomes) |-> outcomes[i].responseTime]

\* C39: averageResponseTime is the arithmetic mean of the response times of
\* the most recent min(n, 100) of the n calls recorded since construction
\* or the last reset(), successes and failures alike, and 0 when n = 0; the
\* collector never retains more than 100 response times.
C39_AverageOfLatest ==
    LET n == Len(history)
        latest == TimesOf(LastOf(history, Min(n, 100)))
        average == GetMetrics(Breaker, config).averageResponseTime
    IN  /\ Len(responseTimes) <= 100
        /\ responseTimes = latest
        /\ average.den > 0
        /\ n = 0 => average.num = 0
        /\ n > 0 => average.num * Min(n, 100) = SumOf(latest) * average.den

\* 101 calls have been recorded; the first, a failure that took long, is
\* no longer part of the average.
C39_Witness ==
    LET average == GetMetrics(Breaker, config).averageResponseTime
    IN  /\ Len(history) = 101
        /\ history[1].isFailure
        /\ history[1].responseTime = 3
        /\ history[2].responseTime = 0
        /\ Len(responseTimes) = 100
        /\ average.num * 100 # SumOf(TimesOf(history)) * average.den
        /\ average.num * 101 # SumOf(TimesOf(history)) * average.den

\* C34: in every OPEN state in which resetTimeout has passed since the last
\* recorded failure, execute() is admitted (as the probe); when the
\* operation of a probe succeeds the state becomes CLOSED; and in CLOSED
\* every execute() is admitted and leaves the state CLOSED.
C34_RecoveryPossible ==
    [][\A c \in Calls :
           /\ (ExecuteCalled(c) /\ OpenAndDue) =>
                  /\ calls'[c].pc = "pending"
                  /\ calls'[c].admission = "probe"
           /\ (Succeeded(c) /\ calls[c].admission = "probe") =>
                  currentState' = CLOSED
           /\ (ExecuteCalled(c) /\ currentState = CLOSED) =>
                  /\ calls'[c].pc = "pending"
                  /\ currentState' = CLOSED]_vars

\* C34, amended: in every OPEN state in which resetTimeout has passed since
\* the last recorded failure, execute() is admitted (as the probe); when the
\* operation of a probe succeeds the state becomes CLOSED, unless the
\* failure of another call has been handled since the probe's admission
\* and has left the state OPEN, which then stays OPEN; and in CLOSED every
\* execute() is admitted and leaves the state CLOSED.
C34_RecoveryUnlessFailure ==
    [][\A c \in Calls :
           /\ (ExecuteCalled(c) /\ OpenAndDue) =>
                  /\ calls'[c].pc = "pending"
                  /\ calls'[c].admission = "probe"
           /\ (Succeeded(c) /\ calls[c].admission = "probe") =>
                  IF currentState = OPEN
                  THEN /\ currentState' = OPEN
                       /\ lastFailureTime # <<>>
                       /\ lastFailureTime[1] >= calls[c].startTime
                       /\ failedCalls >= 1
                  ELSE currentState' = CLOSED
           /\ (ExecuteCalled(c) /\ currentState = CLOSED) =>
                  /\ calls'[c].pc = "pending"
                  /\ currentState' = CLOSED]_vars

\* The circuit had opened, was closed again after resetTimeout, and the
\* next call has been admitted.
C34_Witness ==
    \E c \in Calls :
        /\ calls[c].pc = "pending"
        /\ calls[c].admission = "closed"
        /\ currentState = CLOSED
        /\ lastFailureTime # <<>>
        /\ lastStateChange >= lastFailureTime[1] + config.resetTimeout
        /\ calls[c].startTime >= lastStateChange
        /\ failedCalls = 1
        /\ successfulCalls = 1

\* A call admitted at time s is awaiting its race.
AwaitingSince(s) == \E i \in 1..Len(inFlight) : inFlight[i] = s

====
